---------------------------- MODULE Spec2Model ----------------------------
(***************************************************************************)
(* A model of src/utils.py (RedQueen helper functions):                    *)
(*   - rank_of_src_in_df   the rank tracker (RankSpec)                     *)
(*   - oracle_ranking      the dynamic-programming oracle (OracleSpec)     *)
(*   - sweep_s, find_opt_oracle   the calibration loops (SweepSpec)        *)
(*   - calc_q_capacity_iter       the per-seed worker pool (PoolSpec)      *)
(* Each specification leaves the variables of the other three at rest.     *)
(***************************************************************************)
EXTENDS Integers, Sequences, FiniteSets, TLC

VARIABLES
    \* rank_of_src_in_df
    df,            \* the event log: a sequence of rows [event_id, t, src_id, sink_id]
    rk_fill,       \* the argument fill
    rk_with_time,  \* the argument with_time
    r_t,           \* the returned table
    rk_pc,         \* "call" before the call, "done" after it
    \* oracle_ranking
    event_times,   \* event_times.values: the times of the competing events
    end_time,      \* sim_opts.end_time
    q_vec,         \* sim_opts.q_vec (one follower: one weight)
    s,             \* sim_opts.s
    w,             \* the inter-event durations, indexed 0..n+1
    J,             \* the cost table, indexed <<r, k>>; entries are stored doubled
    k_back,        \* k of the backward loop
    oracle_ranks,  \* indexed 0..n
    u_star,        \* indexed 0..n
    k_fwd,         \* k of the forward loop
    cost,          \* the returned J[0, 0] (doubled)
    filled,        \* history: the entries of J assigned so far
    read_unfilled, \* history: the entries read while not yet assigned
    or_pc,         \* "idle", "call", "backward", "forward", "done"
    \* calc_q_capacity_iter
    seeds,         \* the argument seeds, indexed 0..len(seeds)-1
    parallel,      \* the argument parallel
    capacity_of,   \* seed -> what q_int_worker returns for it
    next_task,     \* the pool's task queue: index of the next task to hand out
    running,       \* worker -> <<i>> while it runs task i, <<>> while idle
    outqueue,      \* the pool's result queue: <<i, value>> in completion order
    imap,          \* the imap iterator: [index, unsorted, items]
    idx,           \* idx of the caller's loop
    capacities,    \* the array capacities, indexed 0..len(seeds)-1
    completed,     \* history: the finished tasks, in the order they finished
    pool_pc,       \* "idle", "loop", "returned"
    \* sweep_s, find_opt_oracle
    fn,            \* which of the two loops runs: "sweep_s" or "find_opt_oracle"
    statistic,     \* the statistic as a function of s: [base, steps]
    target2,       \* twice capacity_cap / target_events (targets are halves)
    tol,           \* the argument tol, as <<numerator, denominator>>
    s_cur,         \* s (sweep_s), s_init and s_try (find_opt_oracle)
    s_lo,          \* s_lo
    s_hi,          \* s_hi
    last_stat,     \* the statistic last computed: init_cap, new_capacity,
                   \* num_events, opt_events
    sw_pc          \* the position in the loop, see SweepPositions

rankVars == <<df, rk_fill, rk_with_time, r_t, rk_pc>>

oracleVars == <<event_times, end_time, q_vec, s, w, J, k_back, oracle_ranks,
                u_star, k_fwd, cost, filled, read_unfilled, or_pc>>

poolVars == <<seeds, parallel, capacity_of, next_task, running, outqueue, imap,
              idx, capacities, completed, pool_pc>>

sweepVars == <<fn, statistic, target2, tol, s_cur, s_lo, s_hi, last_stat,
               sw_pc>>

vars == <<rankVars, oracleVars, poolVars, sweepVars>>

---------------------------------------------------------------------------
(* Bounds of the model *)

\* longest freely drawn event log
MaxLen == 3
\* largest timestamp of a freely drawn event log
MaxT == 2
\* most competing events in a timeline given to the oracle
MaxN == 3
\* latest competing event of such a timeline; end_time is at most one later
MaxEventTime == 3
\* largest weight q and largest posting cost s given to the oracle
MaxQ == 2
MaxS == 4
\* most seeds of one batch, largest value a worker returns, mp.cpu_count()
MaxSeeds == 3
MaxCapacity == 2
CpuCount == 2
\* the floating-point format of s, scaled down from binary64: fraction bits
\* (52 in binary64), the smallest normal number is 2^-MinExp (1022) and the
\* largest binade starts at 2^MaxExp (1023)
MantBits == 2
MinExp == 2
MaxExp == 2
\* most jumps of a statistic and the largest height of one jump
MaxSteps == 2
MaxStepHeight == 2

---------------------------------------------------------------------------
(* Small helpers *)

Min(S) == CHOOSE x \in S : \A y \in S : x <= y
Max(S) == CHOOSE x \in S : \A y \in S : x >= y

RECURSIVE SortedSeq(_)
SortedSeq(S) == IF S = {} THEN <<>>
                ELSE LET m == Min(S) IN <<m>> \o SortedSeq(S \ {m})

RECURSIVE SumSeq(_)
SumSeq(q) == IF q = <<>> THEN 0 ELSE Head(q) + SumSeq(Tail(q))

SeqRange(q) == {q[i] : i \in 1..Len(q)}

---------------------------------------------------------------------------
(* Rank tracker: rank_of_src_in_df *)

\* the designated source and one competitor; the two followers
Sources == {"A", "B"}
Sinks == {1, 2}

\* is_sorted(x): np.all(np.diff(x) >= 0)
is_sorted(x) == \A i \in 1..(Len(x) - 1) : x[i + 1] - x[i] >= 0

\* steps_to(x): arange(1, len+1) - maximum.accumulate(where(x == src_id, 1..len, 0))
steps_to_shifted(x, src_id) ==
    [k \in 1..Len(x) |->
        (k - 1) - Max({0} \cup {j \in 1..k : x[j] = src_id})]

steps_to(x, src_id) ==
    [k \in 1..Len(x) |->
        k - Max({IF x[j] = src_id THEN j ELSE 0 : j \in 1..k})]

\* the rows of one follower's stream, in log order (df.groupby('sink_id'))
StreamIdx(d, sk) == SortedSeq({i \in 1..Len(d) : d[i].sink_id = sk})

\* position of row i within its follower's stream (1-indexed)
PosInStream(d, i) ==
    Cardinality({j \in 1..i : d[j].sink_id = d[i].sink_id})

\* df.groupby('sink_id').src_id.transform(steps_to): one rank per row
RankColumn(d, src_id) ==
    [i \in 1..Len(d) |->
        LET rows == StreamIdx(d, d[i].sink_id)
            x    == [p \in 1..Len(rows) |-> d[rows[p]].src_id]
        IN  steps_to(x, src_id)[PosInStream(d, i)]]

\* A table cell is <<sum, count>>: the mean sum/count of the ranks that fell
\* into it (pivot_table's default aggfunc), or NaN when count = 0.
NaN == <<0, 0>>
IsNaN(c) == c[2] = 0

\* the pivot key of a row: 't' if with_time else 'event_id'
KeyOf(row, with_time) == IF with_time THEN row.t ELSE row.event_id

\* df2.pivot_table(index=key, columns='sink_id', values='rank')
pivot_table(d, rank, with_time) ==
    LET keys == {KeyOf(d[i], with_time) : i \in 1..Len(d)}
        cols == {d[i].sink_id : i \in 1..Len(d)}
        hits(k, c) == {i \in 1..Len(d) :
                          KeyOf(d[i], with_time) = k /\ d[i].sink_id = c}
    IN  [index   |-> SortedSeq(keys),
         columns |-> cols,
         values  |-> [kc \in keys \X cols |->
                        <<SumSeq([p \in 1..Cardinality(hits(kc[1], kc[2])) |->
                                  rank[SortedSeq(hits(kc[1], kc[2]))[p]]]),
                          Cardinality(hits(kc[1], kc[2]))>>]]

\* pivot_ranks.fillna(method='bfill'): the next observation is carried back
bfill(tab) ==
    [tab EXCEPT !.values =
        [kc \in DOMAIN tab.values |->
            LET later == {k \in SeqRange(tab.index) :
                            k >= kc[1] /\ ~IsNaN(tab.values[<<k, kc[2]>>])}
            IN  IF later = {} THEN NaN
                ELSE tab.values[<<Min(later), kc[2]>>]]]

\* pivot_ranks.fillna(method='ffill'): the last observation is carried forward
ffill(tab) ==
    [tab EXCEPT !.values =
        [kc \in DOMAIN tab.values |->
            LET seen == {k \in SeqRange(tab.index) :
                            k <= kc[1] /\ ~IsNaN(tab.values[<<k, kc[2]>>])}
            IN  IF seen = {} THEN NaN
                ELSE tab.values[<<Max(seen), kc[2]>>]]]

rank_of_src_in_df(d, src_id, fill, with_time) ==
    LET pivot_ranks == pivot_table(d, RankColumn(d, src_id), with_time)
    IN  IF fill THEN ffill(pivot_ranks) ELSE pivot_ranks

EmptyTable == [index |-> <<>>, columns |-> {}, values |-> <<>>]

\* Freely drawn logs: every time-sorted log of 1..MaxLen rows; each row is a
\* post of its own (event_id = its position in the log).
Rows == [t : 0..MaxT, src_id : Sources, sink_id : Sinks]
RawLogs == UNION {[1..n -> Rows] : n \in 1..MaxLen}
WithIds(raw) == [i \in 1..Len(raw) |->
                   [event_id |-> i, t |-> raw[i].t,
                    src_id |-> raw[i].src_id, sink_id |-> raw[i].sink_id]]
SmallLogs == {WithIds(raw) : raw \in {l \in RawLogs :
                                        is_sorted([i \in 1..Len(l) |-> l[i].t])}}

\* Feed logs: source A posts to both followers at t=0 and t=5; competitor B
\* posts to follower 1 at the times X and to follower 2 at the times Y.  A
\* post that reaches both followers is one event (one event_id, two rows).
FeedTimes == 0..5
RECURSIVE FeedRows(_, _, _)
FeedRows(X, Y, t) ==
    IF t \notin FeedTimes THEN <<>>
    ELSE LET row(src, sk) == [event_id |-> 2 * t + (IF src = "A" THEN 1 ELSE 2),
                              t |-> t, src_id |-> src, sink_id |-> sk]
             a == IF t \in {0, 5} THEN <<row("A", 1), row("A", 2)>> ELSE <<>>
             b == (IF t \in X THEN <<row("B", 1)>> ELSE <<>>)
                  \o (IF t \in Y THEN <<row("B", 2)>> ELSE <<>>)
         IN  a \o b \o FeedRows(X, Y, t + 1)
FeedLog(X, Y) == FeedRows(X, Y, 0)
FeedLogs == {FeedLog(X, Y) : X \in SUBSET (1..4), Y \in SUBSET (1..4)}

RankIdle ==
    /\ df = <<>>
    /\ rk_fill = TRUE
    /\ rk_with_time = TRUE
    /\ r_t = EmptyTable
    /\ rk_pc = "idle"

RankInputs ==
    /\ df \in SmallLogs \cup FeedLogs
    /\ rk_fill = TRUE
    /\ rk_with_time = TRUE
    /\ r_t = EmptyTable
    /\ rk_pc = "call"

\* one call rank_of_src_in_df(df, "A", fill, with_time)
RankOfSrcInDf ==
    /\ rk_pc = "call"
    /\ is_sorted([i \in 1..Len(df) |-> df[i].t])    \* the assert of line 37
    /\ \E fill \in BOOLEAN, with_time \in BOOLEAN :
          /\ rk_fill' = fill
          /\ rk_with_time' = with_time
          /\ r_t' = rank_of_src_in_df(df, "A", fill, with_time)
    /\ rk_pc' = "done"
    /\ UNCHANGED <<df, oracleVars, poolVars, sweepVars>>

---------------------------------------------------------------------------
(* Claims about the rank tracker (checked under RankSpec) *)

\* the value of a cell is the number v (a mean of count ranks equal to v)
CellIs(c, v) == c[2] > 0 /\ c[1] = v * c[2]

\* the table cell in which row i of the log is reported
CellOf(i) == r_t.values[<<KeyOf(df[i], rk_with_time), df[i].sink_id>>]

\* index (within the stream of row i) of the most recent post of A, 0 if none
LastPostOfA(i) ==
    LET rows == StreamIdx(df, df[i].sink_id)
    IN  Max({0} \cup {p \in 1..PosInStream(df, i) : df[rows[p]].src_id = "A"})

\* the previous row of the same follower's stream (0 if row i is its first)
PrevInStream(i) == Max({0} \cup {j \in 1..(i - 1) : df[j].sink_id = df[i].sink_id})

\* no other row of the same follower carries the timestamp of row i
Untied(i) == \A j \in 1..Len(df) :
                (j # i /\ df[j].sink_id = df[i].sink_id) => df[j].t # df[i].t

\* what the claim says of the cell of row i
RankClaimAt(i) ==
    /\ CellIs(CellOf(i), PosInStream(df, i) - LastPostOfA(i))
    /\ CellOf(i)[1] >= 0
    /\ CellIs(CellOf(i), 0) <=> (df[i].src_id = "A")
    /\ (df[i].src_id # "A" /\ PrevInStream(i) # 0) =>
           CellOf(i)[1] * CellOf(PrevInStream(i))[2] =
               (CellOf(PrevInStream(i))[1] + CellOf(PrevInStream(i))[2]) * CellOf(i)[2]

ScenarioLog == FeedLog({1, 2, 3}, {4})
ScenarioRun ==
    rk_pc = "done" /\ df = ScenarioLog /\ rk_fill /\ rk_with_time

\* the column of follower sk read at the grid points t = 0, 1, 2, 3
ColumnAtGrid(sk) == [t \in 0..3 |-> r_t.values[<<t, sk>>]]
ReadsAs(col, expected) == \A t \in 0..3 : CellIs(col[t], expected[t + 1])

\* C2 (as stated): in the scenario the forward-filled trajectory reads
\* [0,1,2,3] for follower 1 and [0,0,0,1] for follower 2 at t = 0,1,2,3.
C2_ScenarioAsStated ==
    ScenarioRun =>
        /\ ReadsAs(ColumnAtGrid(1), <<0, 1, 2, 3>>)
        /\ ReadsAs(ColumnAtGrid(2), <<0, 0, 0, 1>>)

\* C2 (amended): in the scenario the forward-filled trajectory reads
\* [0,1,2,3] for follower 1 and [0,0,0,0] for follower 2 at t = 0,1,2,3;
\* follower 2's rank becomes 1 at t=4, the time of the competitor's post,
\* where follower 1 still reads the forward-filled 3.
C2_ScenarioAmended ==
    ScenarioRun =>
        /\ ReadsAs(ColumnAtGrid(1), <<0, 1, 2, 3>>)
        /\ ReadsAs(ColumnAtGrid(2), <<0, 0, 0, 0>>)
        /\ CellIs(r_t.values[<<4, 2>>], 1)
        /\ CellIs(r_t.values[<<4, 1>>], 3)
        /\ r_t.index = <<0, 1, 2, 3, 4, 5>>

\* the scenario has been run with the default arguments
C2_Witness == ScenarioRun /\ CellIs(r_t.values[<<3, 1>>], 3)

---------------------------------------------------------------------------
(* Oracle: oracle_ranking, for one follower.                               *)
(* Costs are stored doubled, so that s/2, (q/2)*w*(r+1)^2 and r^2/2 are    *)
(* the integers s, q*w*(r+1)^2 and r^2; the inputs are integers, for which *)
(* the floating-point arithmetic of the source is exact.                   *)

n == Len(event_times)

\* np.diff(np.concatenate([[0.0], [0.0], event_times.values, [end_time]]))
Durations(times, endt) ==
    LET c == <<0, 0>> \o times \o <<endt>>
    IN  [k \in 0..(Len(times) + 1) |-> c[k + 2] - c[k + 1]]

\* J = np.zeros((n + 1, n + 2)); J[:, n + 1] = (np.arange(n + 1) ** 2) / 2
InitialTable(m) ==
    [rk \in (0..m) \X (0..(m + 1)) |-> IF rk[2] = m + 1 THEN rk[1] * rk[1] ELSE 0]

\* the rows the inner loop assigns in column k: range(min(k + 1, n))
RowsFilled(k) == 0..(Min({k + 1, n}) - 1)

\* the two branches at rank r before event k (doubled)
PostCost(tab, k) == s + tab[<<0, k + 1>>]
WaitCost(tab, r, k) == q_vec * w[k + 1] * ((r + 1) * (r + 1)) + tab[<<r + 1, k + 1>>]

\* the test "lhs < rhs" of the forward pass
PostIsCheaperOrEqual(lhs, rhs) == lhs <= rhs
PostIsCheaper(lhs, rhs) == lhs < rhs

NonDecreasing(q) == \A i \in 1..(Len(q) - 1) : q[i] <= q[i + 1]
Timelines == {q \in UNION {[1..m -> 0..MaxEventTime] : m \in 1..MaxN} : NonDecreasing(q)}

OracleIdle ==
    /\ event_times = <<>> /\ end_time = 0 /\ q_vec = 0 /\ s = 0
    /\ w = <<>> /\ J = <<>> /\ k_back = 0
    /\ oracle_ranks = <<>> /\ u_star = <<>> /\ k_fwd = 0 /\ cost = 0
    /\ filled = {} /\ read_unfilled = {}
    /\ or_pc = "idle"

\* the arguments: a sorted timeline of n >= 1 events of the one follower, an
\* end time not before the last event, positive weights
OracleInputs ==
    /\ event_times \in Timelines
    /\ end_time \in event_times[Len(event_times)]..(MaxEventTime + 1)
    /\ q_vec \in 1..MaxQ
    /\ s \in 1..MaxS
    /\ w = <<>> /\ J = <<>> /\ k_back = 0
    /\ oracle_ranks = <<>> /\ u_star = <<>> /\ k_fwd = 0 /\ cost = 0
    /\ filled = {} /\ read_unfilled = {}
    /\ or_pc = "call"

\* lines 173-187: the durations and the table with its terminal column
OracleSetup ==
    /\ or_pc = "call"
    /\ is_sorted(event_times)
    /\ w' = Durations(event_times, end_time)
    /\ J' = InitialTable(n)
    /\ filled' = {<<r, n + 1>> : r \in 0..n}
    /\ k_back' = n
    /\ or_pc' = "backward"
    /\ UNCHANGED <<event_times, end_time, q_vec, s, oracle_ranks, u_star,
                   k_fwd, cost, read_unfilled, rankVars, poolVars, sweepVars>>

\* lines 189-194: one iteration of the loop over k (all of its loop over r);
\* after k = 0, lines 197-198
BackwardColumn ==
    /\ or_pc = "backward"
    /\ LET rows == RowsFilled(k_back)
           reads == {<<0, k_back + 1>> : r \in rows} \cup {<<r + 1, k_back + 1>> : r \in rows}
       IN  /\ J' = [rk \in DOMAIN J |->
                      IF rk[2] = k_back /\ rk[1] \in rows
                      THEN Min({PostCost(J, k_back), WaitCost(J, rk[1], k_back)})
                      ELSE J[rk]]
           /\ filled' = filled \cup {<<r, k_back>> : r \in rows}
           /\ read_unfilled' = read_unfilled \cup (reads \ filled)
    /\ IF k_back > 0
       THEN /\ k_back' = k_back - 1
            /\ UNCHANGED <<oracle_ranks, u_star, k_fwd, or_pc>>
       ELSE /\ oracle_ranks' = [k \in 0..n |-> 0]
            /\ u_star' = [k \in 0..n |-> 0]
            /\ k_fwd' = 0
            /\ or_pc' = "forward"
            /\ UNCHANGED k_back
    /\ UNCHANGED <<event_times, end_time, q_vec, s, w, cost, rankVars, poolVars, sweepVars>>

\* lines 199-207: one iteration of the forward loop
ForwardStep ==
    /\ or_pc = "forward"
    /\ k_fwd < n
    /\ LET lhs == PostCost(J, k_fwd)
           rhs == WaitCost(J, oracle_ranks[k_fwd], k_fwd)
       IN  /\ IF PostIsCheaper(lhs, rhs)
              THEN /\ u_star' = [u_star EXCEPT ![k_fwd] = 1]
                   /\ oracle_ranks' = [oracle_ranks EXCEPT ![k_fwd + 1] = 0]
              ELSE /\ u_star' = [u_star EXCEPT ![k_fwd] = 0]
                   /\ oracle_ranks' = [oracle_ranks EXCEPT
                                         ![k_fwd + 1] = oracle_ranks[k_fwd] + 1]
           /\ read_unfilled' = read_unfilled \cup
                  ({<<0, k_fwd + 1>>, <<oracle_ranks[k_fwd] + 1, k_fwd + 1>>} \ filled)
    /\ k_fwd' = k_fwd + 1
    /\ UNCHANGED <<event_times, end_time, q_vec, s, w, J, k_back, cost, filled,
                   or_pc, rankVars, poolVars, sweepVars>>

\* lines 209-217: return oracle_df, J[0, 0]
OracleReturn ==
    /\ or_pc = "forward"
    /\ k_fwd = n
    /\ cost' = J[<<0, 0>>]
    /\ read_unfilled' = read_unfilled \cup ({<<0, 0>>} \ filled)
    /\ or_pc' = "done"
    /\ UNCHANGED <<event_times, end_time, q_vec, s, w, J, k_back, oracle_ranks,
                   u_star, k_fwd, filled, rankVars, poolVars, sweepVars>>

---------------------------------------------------------------------------
(* Claims about the oracle (checked under OracleSpec) *)

\* the cost (doubled) of following the posting pattern u from rank r at
\* step k: a post costs s/2 and resets the rank, a wait at rank r costs
\* (q/2)*w[k+1]*(r+1)^2 and moves to rank r+1, ending at rank r costs r^2/2
RECURSIVE PatternCost(_, _, _)
PatternCost(u, r, k) ==
    IF k > n THEN r * r
    ELSE IF u[k] = 1 THEN s + PatternCost(u, 0, k + 1)
         ELSE q_vec * w[k + 1] * ((r + 1) * (r + 1)) + PatternCost(u, r + 1, k + 1)

\* the least cost over all posting patterns, found by enumeration
BruteForceMin == Min({PatternCost(u, 0, 0) : u \in [0..n -> {0, 1}]})

\* distinct positive event times and an end time past the last event
ProperTimeline ==
    /\ event_times[1] > 0
    /\ \A i \in 1..(n - 1) : event_times[i] < event_times[i + 1]
    /\ end_time > event_times[n]

\* C3: for a timeline with sorted times and an end time past the last event,
\* the cost returned by oracle_ranking, J[0,0], is the minimum over all
\* posting patterns (brute-force enumeration) of the pattern's total cost.
C3_CostIsBruteForceMin ==
    (or_pc = "done" /\ ProperTimeline) => cost = BruteForceMin

\* the table extended by the terminal cost r^2/2 of every rank r
TableOrTerminal(r, k) == IF k = n + 1 THEN r * r ELSE J[<<r, k>>]

\* the recurrence at <<r, k>>
Recurrence(r, k) ==
    Min({s + TableOrTerminal(0, k + 1),
         q_vec * w[k + 1] * ((r + 1) * (r + 1)) + TableOrTerminal(r + 1, k + 1)})

\* C8: after the backward pass, J[r,k] = min(s/2 + J[0,k+1],
\* (q/2)*w[k+1]*(r+1)^2 + J[r+1,k+1]) for every k in 0..n and every rank r
\* reachable at k (0 <= r <= k), with terminal column J[r,n+1] = r^2/2; no
\* entry read by either pass is a still unassigned entry.  (Stated for
\* timelines with distinct positive times and an end time past the last.)
C8_TableSatisfiesRecurrence ==
    (or_pc \in {"forward", "done"} /\ ProperTimeline) =>
        /\ \A r \in 0..n : J[<<r, n + 1>>] = r * r
        /\ \A k \in 0..n : \A r \in 0..k : J[<<r, k>>] = Recurrence(r, k)
        /\ read_unfilled = {}

\* C4: in the forward pass, at every step k where the post branch and the
\* wait branch cost the same, the oracle does not post (events[k] = 0 and
\* ranks[k+1] = ranks[k] + 1); events[k] = 1 only where the post branch is
\* strictly cheaper, and then ranks[k+1] = 0.
C4_TieFavoursWaiting ==
    or_pc \in {"forward", "done"} =>
        \A k \in 0..(k_fwd - 1) :
            LET lhs == s + J[<<0, k + 1>>]
                rhs == q_vec * w[k + 1] * ((oracle_ranks[k] + 1) * (oracle_ranks[k] + 1))
                       + J[<<oracle_ranks[k] + 1, k + 1>>]
            IN  /\ lhs = rhs => (u_star[k] = 0 /\ oracle_ranks[k + 1] = oracle_ranks[k] + 1)
                /\ u_star[k] = 1 => (lhs < rhs /\ oracle_ranks[k + 1] = 0)
                /\ u_star[k] \in {0, 1}

\* a finished run in which some step was an exact tie, decided by waiting
C4_Witness ==
    /\ or_pc = "done"
    /\ \E k \in 0..(n - 1) :
          /\ s + J[<<0, k + 1>>] =
                 q_vec * w[k + 1] * ((oracle_ranks[k] + 1) * (oracle_ranks[k] + 1))
                 + J[<<oracle_ranks[k] + 1, k + 1>>]
          /\ u_star[k] = 0
          /\ oracle_ranks[k + 1] = oracle_ranks[k] + 1

\* C9: the returned decisions are consistent with the returned cost:
\* ranks[0] = 0, events[k] is 0 or 1, ranks[k+1] is 0 after a post and
\* ranks[k] + 1 otherwise, and following the returned events costs J[0,0].
\* (Stated for timelines with distinct positive times and an end time past
\* the last.)
C9_DecisionsMatchCost ==
    (or_pc = "done" /\ ProperTimeline) =>
        /\ oracle_ranks[0] = 0
        /\ \A k \in 0..n : u_star[k] \in {0, 1}
        /\ \A k \in 0..(n - 1) :
              oracle_ranks[k + 1] = IF u_star[k] = 1 THEN 0 ELSE oracle_ranks[k] + 1
        /\ PatternCost(u_star, 0, 0) = cost

---------------------------------------------------------------------------
(* Worker pool: calc_q_capacity_iter *)

NumSeeds == Len(seeds)
TaskIds == 0..(NumSeeds - 1)

\* num_workers = min(len(seeds), mp.cpu_count())
num_workers == Min({NumSeeds, CpuCount})
Workers == 1..num_workers

\* imap_unordered's iterator: a result is handed on as it arrives
IMapSetUnordered(it, i, value) ==
    [it EXCEPT !.items = Append(it.items, value), !.index = it.index + 1]

\* pool.imap's iterator receiving the result of task i: it is handed on if i
\* is the next index, together with the stashed results that follow it;
\* otherwise it is stashed
RECURSIVE Flush(_)
Flush(it) ==
    IF it.index \in DOMAIN it.unsorted
    THEN Flush([index    |-> it.index + 1,
                unsorted |-> [j \in DOMAIN it.unsorted \ {it.index} |-> it.unsorted[j]],
                items    |-> Append(it.items, it.unsorted[it.index])])
    ELSE it

IMapSet(it, i, value) ==
    IF i = it.index
    THEN Flush([it EXCEPT !.items = Append(it.items, value), !.index = it.index + 1])
    ELSE [it EXCEPT !.unsorted = [j \in DOMAIN it.unsorted \cup {i} |->
                                     IF j = i THEN value ELSE it.unsorted[j]]]

EmptyIMap == [index |-> 0, unsorted |-> <<>>, items |-> <<>>]

PoolIdle ==
    /\ seeds = <<>> /\ parallel = TRUE /\ capacity_of = <<>>
    /\ next_task = 0 /\ running = <<>> /\ outqueue = <<>> /\ imap = EmptyIMap
    /\ idx = 0 /\ capacities = <<>> /\ completed = <<>>
    /\ pool_pc = "idle"

\* lines 386-393 and 401-405: the arguments, capacities = np.zeros(len(seeds)),
\* the pool with its tasks queued in the order of seeds
PoolInputs ==
    /\ \E m \in 1..MaxSeeds :
          /\ seeds = [i \in 1..m |-> i]
          /\ capacity_of \in [1..m -> 0..MaxCapacity]
          /\ capacities = [i \in 0..(m - 1) |-> 0]
          /\ running = [wk \in 1..Min({m, CpuCount}) |-> <<>>]
    /\ parallel \in BOOLEAN
    /\ next_task = 0 /\ outqueue = <<>> /\ imap = EmptyIMap
    /\ idx = 0 /\ completed = <<>>
    /\ pool_pc = "loop"

\* an idle worker takes the next task from the task queue
WorkerTake(wk) ==
    /\ pool_pc = "loop" /\ parallel
    /\ running[wk] = <<>>
    /\ next_task < NumSeeds
    /\ running' = [running EXCEPT ![wk] = <<next_task>>]
    /\ next_task' = next_task + 1
    /\ UNCHANGED <<seeds, parallel, capacity_of, outqueue, imap, idx, capacities,
                   completed, pool_pc, rankVars, oracleVars, sweepVars>>

\* q_int_worker returns: the worker puts its result on the result queue
WorkerFinish(wk) ==
    /\ pool_pc = "loop" /\ parallel
    /\ running[wk] # <<>>
    /\ LET i == running[wk][1]
       IN  /\ outqueue' = Append(outqueue, <<i, capacity_of[seeds[i + 1]]>>)
           /\ completed' = Append(completed, i)
    /\ running' = [running EXCEPT ![wk] = <<>>]
    /\ UNCHANGED <<seeds, parallel, capacity_of, next_task, imap, idx, capacities,
                   pool_pc, rankVars, oracleVars, sweepVars>>

\* the pool's result handler passes the next result to the iterator
HandleResult ==
    /\ pool_pc = "loop" /\ parallel
    /\ outqueue # <<>>
    /\ imap' = IMapSet(imap, Head(outqueue)[1], Head(outqueue)[2])
    /\ outqueue' = Tail(outqueue)
    /\ UNCHANGED <<seeds, parallel, capacity_of, next_task, running, idx, capacities,
                   completed, pool_pc, rankVars, oracleVars, sweepVars>>

\* lines 403-406: one iteration of the caller's loop over enumerate(pool.imap(...))
CallerNext ==
    /\ pool_pc = "loop" /\ parallel
    /\ imap.items # <<>>
    /\ capacities' = [capacities EXCEPT ![idx] = Head(imap.items)]
    /\ imap' = [imap EXCEPT !.items = Tail(imap.items)]
    /\ idx' = idx + 1
    /\ UNCHANGED <<seeds, parallel, capacity_of, next_task, running, outqueue,
                   completed, pool_pc, rankVars, oracleVars, sweepVars>>

\* lines 395-399: one iteration of the loop of the sequential branch
SequentialNext ==
    /\ pool_pc = "loop" /\ ~parallel
    /\ idx < NumSeeds
    /\ capacities' = [capacities EXCEPT ![idx] = capacity_of[seeds[idx + 1]]]
    /\ completed' = Append(completed, idx)
    /\ idx' = idx + 1
    /\ UNCHANGED <<seeds, parallel, capacity_of, next_task, running, outqueue, imap,
                   pool_pc, rankVars, oracleVars, sweepVars>>

\* line 408: the loop has received len(seeds) results; return capacities
PoolReturn ==
    /\ pool_pc = "loop"
    /\ idx = NumSeeds
    /\ pool_pc' = "returned"
    /\ UNCHANGED <<seeds, parallel, capacity_of, next_task, running, outqueue, imap,
                   idx, capacities, completed, rankVars, oracleVars, sweepVars>>

---------------------------------------------------------------------------
(* Claims about the worker pool (checked under PoolSpec) *)

\* capacities.sum(), the numerator of the mean sweep_s takes
RECURSIVE SumOver(_, _)
SumOver(f, S) == IF S = {} THEN 0
                 ELSE LET x == CHOOSE x \in S : TRUE IN f[x] + SumOver(f, S \ {x})

\* C7: with parallel workers, whatever the interleaving and completion order
\* of the per-seed tasks, calc_q_capacity_iter returns only after every task
\* of the batch has completed, entry i of the result is the value computed
\* for the i-th seed, and so the mean does not depend on the completion order.
C7_ReturnsAfterAllInOrder ==
    (pool_pc = "returned" /\ parallel) =>
        /\ SeqRange(completed) = TaskIds /\ Len(completed) = NumSeeds
        /\ \A wk \in Workers : running[wk] = <<>>
        /\ outqueue = <<>> /\ imap.items = <<>> /\ imap.unsorted = <<>>
        /\ \A i \in TaskIds : capacities[i] = capacity_of[seeds[i + 1]]
        /\ SumOver(capacities, TaskIds) = SumOver(capacity_of, 1..NumSeeds)

\* a parallel batch has returned although a later task finished before an
\* earlier one, and the two tasks computed different values
C7_Witness ==
    /\ pool_pc = "returned" /\ parallel
    /\ \E p, q \in 1..Len(completed) :
          /\ p < q /\ completed[p] > completed[q]
          /\ capacities[completed[p]] # capacities[completed[q]]

---------------------------------------------------------------------------
(* Calibration loops: sweep_s and find_opt_oracle.                         *)
(* s is a floating-point number.  A number is held as an integer count of  *)
(* the smallest subnormal, 2^-(MinExp+MantBits); InfV stands for inf.      *)
(* Arithmetic rounds to nearest, ties to even, as binary64 does.           *)

RECURSIVE Pow2(_)
Pow2(k) == IF k = 0 THEN 1 ELSE 2 * Pow2(k - 1)

RECURSIVE ILog2(_)
ILog2(v) == IF v < 2 THEN 0 ELSE 1 + ILog2(v \div 2)

\* 1.0 and inf
One == Pow2(MinExp + MantBits)
InfV == Pow2(MaxExp + 1) * One

\* the spacing of the representable numbers around x
Ulp(x) == IF x < Pow2(MantBits + 1) THEN 1 ELSE Pow2(ILog2(x) - MantBits)

IsFloat(x) == x = InfV \/ (x >= 0 /\ x < InfV /\ x % Ulp(x) = 0)
Floats == {x \in 0..InfV : IsFloat(x)}

\* x rounded to a multiple of u, ties to the even multiple
RoundEven(x, u) ==
    LET q == x \div u
        r == x % u
    IN  IF 2 * r < u THEN q * u
        ELSE IF 2 * r > u THEN (q + 1) * u
        ELSE IF q % 2 = 0 THEN q * u ELSE (q + 1) * u

\* the floating-point number nearest to the exact x
fl(x) == IF x >= InfV THEN InfV ELSE Min({InfV, RoundEven(x, Ulp(x))})

\* a + b, 2 * a and a / 2.0 in floating point
FAdd(a, b) == IF a = InfV \/ b = InfV THEN InfV ELSE fl(a + b)
FDouble(a) == FAdd(a, a)
FHalve(a) ==
    IF a = InfV THEN InfV
    ELSE IF a % 2 = 0 THEN a \div 2
    ELSE LET q == a \div 2 IN IF q % 2 = 0 THEN q ELSE q + 1

\* (s_lo + s_hi) / 2.0
Mid(lo, hi) == FHalve(FAdd(lo, hi))

\* The statistic (mean capacity, number of events) is a function of s that
\* the loops only evaluate.  It is given as a level base and at most MaxSteps
\* jumps <<theta, h>>: the statistic is h higher for s < theta.  Every such
\* function is non-increasing in s.
ThresholdPoints == {One \div 2, (3 * One) \div 4, One, (5 * One) \div 4,
                    (3 * One) \div 2, 2 * One}
BaseLevels == {0, 9}
Tolerances == {<<1, 100>>, <<1, 10>>}

StepSets ==
    {S \in SUBSET (ThresholdPoints \X (1..MaxStepHeight)) :
        /\ Cardinality(S) <= MaxSteps
        /\ \A a, b \in S : a[1] = b[1] => a = b}

RECURSIVE SumHeights(_)
SumHeights(S) ==
    IF S = {} THEN 0
    ELSE LET a == CHOOSE x \in S : TRUE IN a[2] + SumHeights(S \ {a})

Stat(x) == statistic.base + SumHeights({a \in statistic.steps : x < a[1]})

\* comparisons of a statistic v with the target (target2 is twice the target)
BelowTarget(v) == 2 * v < target2
AboveTarget(v) == 2 * v > target2

AbsDiff(a, b) == IF a >= b THEN a - b ELSE b - a

\* abs(v - target) / target < tol
WithinTol(v) == AbsDiff(2 * v, target2) * tol[2] < tol[1] * target2
\* np.ceil(target_events), np.floor(target_events)
Ceil == (target2 + 1) \div 2
Floor == target2 \div 2

\* the test that ends the bisection
Converged(v) ==
    IF fn = "sweep_s" THEN WithinTol(v)
    ELSE WithinTol(v) \/ v = Ceil \/ v = Floor

\* the bracket after a bisection step that did not converge
NextBracket(lo, hi, x, v) ==
    IF fn = "sweep_s"
    THEN IF AboveTarget(v) THEN <<x, hi>> ELSE <<lo, x>>
    ELSE IF BelowTarget(v) THEN <<lo, x>> ELSE <<x, hi>>

SweepPositions == {"idle", "start", "choose", "halve", "halve_test", "double",
                   "double_test", "bisect", "bisect_test", "done"}

SweepIdle ==
    /\ fn = "none" /\ statistic = [base |-> 0, steps |-> {}]
    /\ target2 = 1 /\ tol = <<1, 100>>
    /\ s_cur = 0 /\ s_lo = 0 /\ s_hi = 0 /\ last_stat = 0 /\ sw_pc = "idle"

\* The arguments of a call.  s_init is 1.0.  find_opt_oracle starts with
\* s_hi, s_lo = 2.0, 0.5; in sweep_s they are unassigned until the bracketing
\* loop assigns them, and 0 stands for that.
SweepInputs ==
    /\ fn \in {"sweep_s", "find_opt_oracle"}
    /\ \E b \in BaseLevels, S \in StepSets :
          /\ statistic = [base |-> b, steps |-> S]
          /\ target2 \in {2 * b + j : j \in 0..(2 * MaxSteps * MaxStepHeight - 1)}
    /\ target2 >= 1
    /\ tol \in Tolerances
    /\ s_cur = One
    /\ s_lo = IF fn = "find_opt_oracle" THEN One \div 2 ELSE 0
    /\ s_hi = IF fn = "find_opt_oracle" THEN 2 * One ELSE 0
    /\ last_stat = 0
    /\ sw_pc = "start"

\* init_cap = calc_q_capacity_iter(sim_opts_gen, s_init).mean()
\* num_events = oracle_num_events(s_init)
SweepStart ==
    /\ sw_pc = "start"
    /\ last_stat' = Stat(s_cur)
    /\ sw_pc' = "choose"
    /\ UNCHANGED <<fn, statistic, target2, tol, s_cur, s_lo, s_hi,
                   rankVars, oracleVars, poolVars>>

\* which bracketing loop runs
ChooseDirection ==
    /\ sw_pc = "choose"
    /\ sw_pc' = IF fn = "sweep_s"
                THEN IF BelowTarget(last_stat) THEN "halve" ELSE "double"
                ELSE IF AboveTarget(last_stat) THEN "double"
                     ELSE IF BelowTarget(last_stat) THEN "halve"
                     ELSE "bisect"
    /\ UNCHANGED <<fn, statistic, target2, tol, s_cur, s_lo, s_hi, last_stat,
                   rankVars, oracleVars, poolVars>>

\* s_hi = s; s /= 2.0; s_lo = s; and the statistic at the new s
HalveStep ==
    /\ sw_pc = "halve"
    /\ s_hi' = s_cur
    /\ s_cur' = FHalve(s_cur)
    /\ s_lo' = s_cur'
    /\ last_stat' = Stat(s_cur')
    /\ sw_pc' = "halve_test"
    /\ UNCHANGED <<fn, statistic, target2, tol, rankVars, oracleVars, poolVars>>

\* if ... > capacity_cap: break
HalveTest ==
    /\ sw_pc = "halve_test"
    /\ sw_pc' = IF AboveTarget(last_stat) THEN "bisect" ELSE "halve"
    /\ UNCHANGED <<fn, statistic, target2, tol, s_cur, s_lo, s_hi, last_stat,
                   rankVars, oracleVars, poolVars>>

\* s_lo = s; s *= 2.0; s_hi = s; and the statistic at the new s
DoubleStep ==
    /\ sw_pc = "double"
    /\ s_lo' = s_cur
    /\ s_cur' = FDouble(s_cur)
    /\ s_hi' = s_cur'
    /\ last_stat' = Stat(s_cur')
    /\ sw_pc' = "double_test"
    /\ UNCHANGED <<fn, statistic, target2, tol, rankVars, oracleVars, poolVars>>

\* if ... < capacity_cap: break
DoubleTest ==
    /\ sw_pc = "double_test"
    /\ sw_pc' = IF BelowTarget(last_stat) THEN "bisect" ELSE "double"
    /\ UNCHANGED <<fn, statistic, target2, tol, s_cur, s_lo, s_hi, last_stat,
                   rankVars, oracleVars, poolVars>>

\* s = (s_hi + s_lo) / 2.0; and the statistic at the new s
BisectStep ==
    /\ sw_pc = "bisect"
    /\ s_cur' = Mid(s_lo, s_hi)
    /\ last_stat' = Stat(s_cur')
    /\ sw_pc' = "bisect_test"
    /\ UNCHANGED <<fn, statistic, target2, tol, s_lo, s_hi,
                   rankVars, oracleVars, poolVars>>

\* break / return when converged, else move one end of the bracket
BisectTest ==
    /\ sw_pc = "bisect_test"
    /\ IF Converged(last_stat)
       THEN /\ sw_pc' = "done"
            /\ UNCHANGED <<s_lo, s_hi>>
       ELSE /\ sw_pc' = "bisect"
            /\ s_lo' = NextBracket(s_lo, s_hi, s_cur, last_stat)[1]
            /\ s_hi' = NextBracket(s_lo, s_hi, s_cur, last_stat)[2]
    /\ UNCHANGED <<fn, statistic, target2, tol, s_cur, last_stat,
                   rankVars, oracleVars, poolVars>>

---------------------------------------------------------------------------
(* Claims about the calibration loops (checked under SweepSpec) *)

\* the statistic is monotone non-increasing in s
NonIncreasing ==
    \A x, y \in Floats : x <= y => Stat(x) >= Stat(y)

\* the statistic crosses the target: it is strictly above it for some s and
\* strictly below it for some s
Crosses ==
    \E x, y \in Floats \ {0, InfV} :
        AboveTarget(Stat(x)) /\ BelowTarget(Stat(y))

InBracketing == sw_pc \in {"halve", "halve_test", "double", "double_test"}
InBisection == sw_pc \in {"bisect", "bisect_test"}

\* C5: when the statistic is monotone non-increasing and crosses the target,
\* the calibration loop terminates and returns an s whose statistic has
\* relative error below the tolerance (or, for the event count, equals the
\* ceiling or the floor of the target).
C5_TerminatesWithinTolerance ==
    (NonIncreasing /\ Crosses)
        => <>(sw_pc = "done" /\ Converged(Stat(s_cur)))

\* C6: the bracketing phase does not loop without bound: every call leaves
\* it, either because the statistic crossed the target or because the call
\* failed explicitly (ConvergenceFailure).
C6_BracketingEndsOrFails ==
    <>(sw_pc \in {"bisect", "bisect_test", "done", "failed"})

\* at the start of a bisection iteration 0 < s_lo < s_hi, the statistic at
\* s_lo is at or above the target and at s_hi at or below it
BracketInv ==
    InBisection =>
        /\ 0 < s_lo /\ s_lo < s_hi
        /\ ~BelowTarget(Stat(s_lo))
        /\ ~AboveTarget(Stat(s_hi))

\* the midpoint tried lies strictly inside the bracket
MidStrictlyInside ==
    sw_pc = "bisect_test" => (s_lo < s_cur /\ s_cur < s_hi)

\* an iteration that does not return halves the width of the bracket
WidthHalves ==
    (sw_pc = "bisect_test" /\ sw_pc' = "bisect")
        => 2 * (s_hi' - s_lo') = s_hi - s_lo

\* C10: the bracket invariant of the bisection: at the start of every
\* iteration 0 < s_lo < s_hi with the statistic at s_lo at or above and at
\* s_hi at or below the target, every midpoint tried lies strictly inside
\* the bracket, and the width halves at every iteration that does not return.
C10_BracketInvariant ==
    /\ [](BracketInv /\ MidStrictlyInside)
    /\ [][WidthHalves]_vars

---------------------------------------------------------------------------
(* Specifications *)

RankInit == RankInputs /\ OracleIdle /\ PoolIdle /\ SweepIdle
RankNext == RankOfSrcInDf
RankSpec == RankInit /\ [][RankNext]_vars

OracleInit == OracleInputs /\ RankIdle /\ PoolIdle /\ SweepIdle
OracleNext == OracleSetup \/ BackwardColumn \/ ForwardStep \/ OracleReturn
OracleSpec == OracleInit /\ [][OracleNext]_vars

PoolInit == PoolInputs /\ RankIdle /\ OracleIdle /\ SweepIdle
PoolNext ==
    \/ \E wk \in Workers : WorkerTake(wk)
    \/ \E wk \in Workers : WorkerFinish(wk)
    \/ HandleResult
    \/ CallerNext
    \/ SequentialNext
    \/ PoolReturn
PoolSpec == PoolInit /\ [][PoolNext]_vars

\* A call that has not returned takes its next step: the loops run in one
\* thread that nothing blocks.
SweepInit == SweepInputs /\ RankIdle /\ OracleIdle /\ PoolIdle
SweepNext ==
    \/ SweepStart
    \/ ChooseDirection
    \/ HalveStep
    \/ HalveTest
    \/ DoubleStep
    \/ DoubleTest
    \/ BisectStep
    \/ BisectTest
SweepSpec == SweepInit /\ [][SweepNext]_vars /\ WF_vars(SweepNext)

=============================================================================
